---- MODULE Spec2Model ----
(***************************************************************************)
(* The landing screen (script.js) and the solar-system screen              *)
(* (planetScript.js) as one state machine.                                 *)
(*                                                                         *)
(* Numbers.  The code computes in IEEE doubles; the model computes in      *)
(* fixed point.  Camera x/y and the pointer scalars are integers in units  *)
(* of 1/FX; zoom distances are integers in units of 1/2 (the wheel factor  *)
(* is 0.5); angles are integers in units of 1/1000 rad (every configured   *)
(* speed is a multiple of 0.001); planet coordinates are in units of       *)
(* 1/1000.  Within the bounds below every easing division is exact, so the *)
(* camera values are the exact rationals the formulas of the code give.    *)
(***************************************************************************)
EXTENDS Integers, Sequences, FiniteSets

VARIABLES
    canvas,       \* the document has the element 'solar-scene'
    viewport,     \* window.innerWidth, window.innerHeight
    lMouse,       \* script.js: mouseX, mouseY
    lCam,         \* script.js: camera.position and camera.aspect
    lSize,        \* script.js: renderer size
    lStars,       \* script.js: stars.rotation.x / .y
    lListeners,   \* script.js: window listeners registered by the landing page
    lFrames,      \* pending requestAnimationFrame callbacks of the landing loop
    overlay,      \* opacity state of #intro-overlay
    tweens,       \* running gsap tweens of #intro-overlay (each ends in onComplete)
    solarHidden,  \* #solar-container has class 'hidden'
    initCalls,    \* number of calls of window.initSolarSystem so far
    initialised,  \* canvas.dataset.initialised of 'solar-scene'
    entities,     \* objects added to the solar scene, in order
    sListeners,   \* planetScript.js: number of listeners registered, per event
    sFrames,      \* pending requestAnimationFrame callbacks of the solar loop
    sCam,         \* planetScript.js: camera.position and camera.aspect
    sSize,        \* planetScript.js: renderer size
    sMouse,       \* planetScript.js: mouseX, mouseY
    planets,      \* planetScript.js: the planet meshes (userData, position, rotation.y)
    panel,        \* #planet-title, #planet-content, classList of #info-panel
    hideTimers    \* pending setTimeout callbacks of the close button

vars == <<canvas, viewport, lMouse, lCam, lSize, lStars, lListeners, lFrames, overlay,
          tweens, solarHidden, initCalls, initialised, entities, sListeners,
          sFrames, sCam, sSize, sMouse, planets, panel, hideTimers>>

landingVars == <<lMouse, lCam, lSize, lStars, lListeners, lFrames>>
solarVars == <<initialised, entities, sListeners, sFrames, sCam, sSize, sMouse,
               planets>>
panelVars == <<panel, hideTimers>>

----------------------------------------------------------------------------
(* Bounds of the exploration *)

MaxLandingFrames == 1   \* frames of the landing loop
MaxSolarFrames == 1     \* frames of the solar loop
MaxClicks == 2          \* clicks on the start icon
MaxTimers == 1          \* close-button timers pending at once

(* Fixed-point unit of camera x/y and of the pointer scalars *)
FX == 1000 * 1000

(* Inputs *)
Viewports == {<<1000, 800>>, <<800, 1000>>}
PointerFractions == {<<4, 0>>}     \* pointer at (i/4, j/4) of the viewport
WheelDeltas == {1000, -3001}
AngleSeeds == { <<0, 0, 0, 0, 0>>,                \* Math.random() * 2 * PI per planet,
                <<5236, 1047, 3142, 6282, 2094>> } \* in 1/1000 rad

----------------------------------------------------------------------------
(* Arithmetic helpers *)

Max(a, b) == IF a >= b THEN a ELSE b
Min(a, b) == IF a <= b THEN a ELSE b

(* camera.position.c += (target - camera.position.c) * (1/den) *)
EaseJump(c, target, den) == target
Ease(c, target, den) == c + ((target - c) \div den)

(* event.clientX / window.innerWidth - 0.5, in units of 1/FX *)
Normalise(client, extent) == ((client * FX) \div extent) - (FX \div 2)

(* The pointer at fraction f/4 of an extent, in pixels *)
ClientAt(f, extent) == (f * extent) \div 4

----------------------------------------------------------------------------
(* Math.cos and Math.sin on angles in 1/1000 rad, results in 1/1000:       *)
(* reduction to the first quadrant and the Taylor polynomial of degree 8.  *)

TwoPi == 6283
Pi == 3142
HalfPi == 1571

CosQ(x) ==
    LET x2 == (x * x) \div 1000
        x4 == (x2 * x2) \div 1000
        x6 == (x4 * x2) \div 1000
        x8 == (x6 * x2) \div 1000
    IN 1000 - (x2 \div 2) + (x4 \div 24) - (x6 \div 720) + (x8 \div 40320)

Cos(a) ==
    LET m == a % TwoPi
    IN IF m <= HalfPi THEN CosQ(m)
       ELSE IF m <= Pi THEN -CosQ(Pi - m)
       ELSE IF m <= Pi + HalfPi THEN -CosQ(m - Pi)
       ELSE CosQ(TwoPi - m)

Sin(a) == Cos(a + TwoPi - HalfPi)

----------------------------------------------------------------------------
(* script.js: constants *)

LandingStartZ == 1000
LandingMinZoom == 500
LandingMaxZoom == 2000
LandingParallax == 50
LandingEaseDen == 20      \* smoothing factor 0.05 = 1/20
StarsRotY == 5            \* 0.0005 per frame, in units of 0.0001
StarsRotX == 2            \* 0.0002 per frame, in units of 0.0001

(* planetScript.js: constants *)

SolarStartY == 200
SolarStartZ == 800
SolarMinZoom == 300
SolarMaxZoom == 1500
SolarParallaxX == 200
SolarParallaxY == 100
SolarEaseDen == 50        \* smoothing factor 0.02 = 1/50
PlanetSpin == 1           \* rotation.y += 0.01 per frame, in units of 0.01

(* The content strings are the source's, with its typographic apostrophe   *)
(* and dash written in ASCII; color is not modelled.                       *)
planetsData == <<
    [name |-> "Earth", orbitalRadius |-> 150, size |-> 15, speed |-> 10,
     content |-> "This could be your ABOUT section. Tell visitors who you are or describe your craft here."],
    [name |-> "Mars", orbitalRadius |-> 220, size |-> 12, speed |-> 8,
     content |-> "Share some of your stories here. Perhaps tales of your adventures or short stories you've written."],
    [name |-> "Venus", orbitalRadius |-> 270, size |-> 10, speed |-> 6,
     content |-> "Display your poems or creative writing pieces on this planet."],
    [name |-> "Jupiter", orbitalRadius |-> 330, size |-> 25, speed |-> 4,
     content |-> "Use this space for a portfolio of photographs or graphic design works. You can embed images in the panel."],
    [name |-> "Saturn", orbitalRadius |-> 400, size |-> 20, speed |-> 3,
     content |-> "A miscellaneous section-perhaps news, blog posts or anything else you want to share."] >>

PlanetIdx == 1..Len(planetsData)

(* Objects of the solar scene a ray can pass through *)
Sun == [kind |-> "sun", index |-> 0]
Ring(i) == [kind |-> "ring", index |-> i]
Planet(i) == [kind |-> "planet", index |-> i]

(* Rays of a click: the scene objects the ray passes through, nearest first *)
Rays == { <<>>, <<Sun, Ring(1)>>, <<Ring(2), Planet(2), Planet(1)>>,
          <<Sun, Planet(5), Ring(5)>> }

----------------------------------------------------------------------------
(* Helpers shared by both screens *)

(* requestAnimationFrame(animate): one more callback pending *)
RequestAnimationFrameTwice(pending) == pending + 2
RequestAnimationFrame(pending) == pending + 1

(* onWheel: camera.position.z += deltaY * 0.5, then clamp to [lo, hi].     *)
(* z is in units of 1/2, so deltaY * 0.5 is deltaY units.                  *)
OnWheelNoClamp(z, deltaY, lo, hi) == z + deltaY
OnWheelFullDelta(z, deltaY, lo, hi) == Max(2 * lo, Min(2 * hi, z + 2 * deltaY))
OnWheel(z, deltaY, lo, hi) == Max(2 * lo, Min(2 * hi, z + deltaY))

(* onMouseMove: the two normalised pointer scalars *)
OnMouseMove(clientX, clientY, vp) ==
    [x |-> Normalise(clientX, vp[1]), y |-> Normalise(clientY, vp[2])]

(* onResize: camera.aspect and the renderer size follow the window *)
OnResize(cam, vp) == [cam EXCEPT !.aspect = vp]

----------------------------------------------------------------------------
(* script.js *)

(* animate() of the landing page, after its requestAnimationFrame call *)
LandingFrameCam(cam, mouse) ==
    LET targetX == mouse.x * LandingParallax
        targetY == mouse.y * LandingParallax
    IN [cam EXCEPT !.x = Ease(cam.x, targetX, LandingEaseDen),
                   !.y = Ease(cam.y, -targetY, LandingEaseDen)]

LandingFrameStars(stars) ==
    [x |-> stars.x + StarsRotX, y |-> stars.y + StarsRotY]

(* removeEventListener('mousemove', ...), removeEventListener('wheel', ...) *)
RemoveOnlyMouseMove(ls) == ls \ {"mousemove"}
RemoveLandingListeners(ls) == ls \ {"mousemove", "wheel"}

----------------------------------------------------------------------------
(* planetScript.js *)

(* if (!canvas || canvas.dataset.initialised) return; *)
GuardWithoutFlag(present, flag) == ~present
GuardReturns(present, flag) == ~present \/ flag

(* scene.add(...) calls of one initialisation, in order *)
RECURSIVE PlanetEntities(_)
PlanetEntities(i) ==
    IF i > Len(planetsData) THEN <<>>
    ELSE <<Planet(i), Ring(i)>> \o PlanetEntities(i + 1)

SceneEntities ==
    << [kind |-> "ambient", index |-> 0], [kind |-> "pointLight", index |-> 0],
       [kind |-> "starField", index |-> 0], Sun >> \o PlanetEntities(1)

(* new THREE.Mesh(...) with its userData; a new mesh sits at the origin *)
NewPlanet(data, angle) ==
    [name |-> data.name, content |-> data.content,
     orbitalRadius |-> data.orbitalRadius, speed |-> data.speed,
     angle |-> angle, pos |-> <<0, 0, 0>>, rotY |-> 0]

(* (Math.cos(a) * r, 0, Math.sin(a) * r), in units of 1/1000 *)
OrbitPosition(a, r) == <<Cos(a) * r, 0, Sin(a) * r>>

(* The planets.forEach body of animate() *)
AdvancePlanetStale(p) ==
    [p EXCEPT !.angle = p.angle + p.speed,
              !.pos = OrbitPosition(p.angle, p.orbitalRadius),
              !.rotY = p.rotY + PlanetSpin]
AdvancePlanet(p) ==
    LET a == p.angle + p.speed
        r == p.orbitalRadius
    IN [p EXCEPT !.angle = a,
                 !.pos = OrbitPosition(a, r),
                 !.rotY = p.rotY + PlanetSpin]

(* The camera lines of animate() *)
SolarFrameCam(cam, mouse) ==
    [cam EXCEPT !.x = Ease(cam.x, mouse.x * SolarParallaxX, SolarEaseDen),
                !.y = Ease(cam.y, -mouse.y * SolarParallaxY, SolarEaseDen)]

(* raycaster.intersectObjects(objects): the hits among objects, nearest first *)
IntersectAll(ray, objects) == ray
IntersectObjects(ray, objects) ==
    LET Tested(o) == o \in objects IN SelectSeq(ray, Tested)

PlanetMeshes(ps) == { Planet(i) : i \in 1..Len(ps) }

(* selected.userData.name / .content; other objects carry no userData *)
UserData(ps, obj) ==
    IF obj.kind = "planet" /\ obj.index \in 1..Len(ps)
    THEN [name |-> ps[obj.index].name, content |-> ps[obj.index].content]
    ELSE [name |-> "undefined", content |-> "undefined"]

(* onCanvasClick: the panel after a click along ray *)
OnCanvasClick(pn, ps, ray) ==
    LET intersects == IntersectObjects(ray, PlanetMeshes(ps))
    IN IF Len(intersects) > 0
       THEN LET selected == UserData(ps, intersects[1])
            IN [title |-> selected.name, content |-> selected.content,
                classes |-> (pn.classes \ {"hidden"}) \cup {"show"}]
       ELSE pn

NoListeners == [click |-> 0, close |-> 0, wheel |-> 0, resize |-> 0, mousemove |-> 0]
NoMouse == [x |-> 0, y |-> 0]
NoCamera == [x |-> 0, y |-> 0, z |-> 0, aspect |-> <<0, 0>>]

----------------------------------------------------------------------------
(* The state once the DOMContentLoaded handler of script.js has run: the   *)
(* landing scene is built, its three listeners are registered and          *)
(* animate() has run once.  planetScript.js has only defined               *)
(* window.initSolarSystem.  The info panel starts hidden.  The document    *)
(* may or may not hold the canvas 'solar-scene'; that never changes.       *)

Init ==
    /\ canvas \in BOOLEAN
    /\ viewport \in Viewports
    /\ lMouse = NoMouse
    /\ lCam = LandingFrameCam(
                  [x |-> 0, y |-> 0, z |-> 2 * LandingStartZ, aspect |-> viewport],
                  NoMouse)
    /\ lSize = viewport
    /\ lStars = LandingFrameStars([x |-> 0, y |-> 0])
    /\ lListeners = {"mousemove", "wheel", "resize"}
    /\ lFrames = RequestAnimationFrame(0)
    /\ overlay = "opaque"
    /\ tweens = 0
    /\ solarHidden = TRUE
    /\ initCalls = 0
    /\ initialised = FALSE
    /\ entities = <<>>
    /\ sListeners = NoListeners
    /\ sFrames = 0
    /\ sCam = NoCamera
    /\ sSize = <<0, 0>>
    /\ sMouse = NoMouse
    /\ planets = <<>>
    /\ panel = [title |-> "", content |-> "", classes |-> {"hidden"}]
    /\ hideTimers = 0

(* A frame callback of the landing loop: animate() of script.js *)
LandingFrame ==
    /\ lFrames > 0
    /\ lStars.y < (1 + MaxLandingFrames) * StarsRotY
    /\ lFrames' = RequestAnimationFrame(lFrames - 1)
    /\ lStars' = LandingFrameStars(lStars)
    /\ lCam' = LandingFrameCam(lCam, lMouse)
    /\ UNCHANGED <<canvas, viewport, lMouse, lSize, lListeners, overlay, tweens,
                   solarHidden, initCalls>>
    /\ UNCHANGED solarVars
    /\ UNCHANGED panelVars

(* A frame callback of the solar loop: animate() of planetScript.js *)
SolarFrame ==
    /\ sFrames > 0
    /\ planets[1].rotY < (1 + MaxSolarFrames) * PlanetSpin
    /\ sFrames' = RequestAnimationFrame(sFrames - 1)
    /\ planets' = [i \in 1..Len(planets) |-> AdvancePlanet(planets[i])]
    /\ sCam' = SolarFrameCam(sCam, sMouse)
    /\ UNCHANGED <<canvas, viewport, overlay, tweens, solarHidden, initCalls,
                   initialised, entities, sListeners, sSize, sMouse>>
    /\ UNCHANGED landingVars
    /\ UNCHANGED panelVars

(* A mousemove event on window, delivered to every registered listener *)
MouseMoveEvent(f) ==
    LET clientX == ClientAt(f[1], viewport[1])
        clientY == ClientAt(f[2], viewport[2])
    IN /\ lMouse' = IF "mousemove" \in lListeners
                    THEN OnMouseMove(clientX, clientY, viewport) ELSE lMouse
       /\ sMouse' = IF sListeners.mousemove > 0
                    THEN OnMouseMove(clientX, clientY, viewport) ELSE sMouse
       /\ UNCHANGED <<canvas, viewport, lCam, lSize, lStars, lListeners, lFrames,
                      overlay, tweens, solarHidden, initCalls, initialised,
                      entities, sListeners, sFrames, sCam, sSize, planets>>
       /\ UNCHANGED panelVars

(* A wheel event on window, delivered to every registered listener *)
WheelEvent(deltaY) ==
    /\ lCam' = IF "wheel" \in lListeners
               THEN [lCam EXCEPT !.z = OnWheel(lCam.z, deltaY, LandingMinZoom,
                                               LandingMaxZoom)]
               ELSE lCam
    /\ sCam' = IF sListeners.wheel > 0
               THEN [sCam EXCEPT !.z = OnWheel(sCam.z, deltaY, SolarMinZoom,
                                               SolarMaxZoom)]
               ELSE sCam
    /\ UNCHANGED <<canvas, viewport, lMouse, lSize, lStars, lListeners, lFrames,
                   overlay, tweens, solarHidden, initCalls, initialised,
                   entities, sListeners, sFrames, sSize, sMouse, planets>>
    /\ UNCHANGED panelVars

(* A resize event on window, delivered to every registered listener *)
ResizeEvent(vp) ==
    /\ vp # viewport
    /\ viewport' = vp
    /\ lCam' = IF "resize" \in lListeners THEN OnResize(lCam, vp) ELSE lCam
    /\ lSize' = IF "resize" \in lListeners THEN vp ELSE lSize
    /\ sCam' = IF sListeners.resize > 0 THEN OnResize(sCam, vp) ELSE sCam
    /\ sSize' = IF sListeners.resize > 0 THEN vp ELSE sSize
    /\ UNCHANGED <<canvas, lMouse, lStars, lListeners, lFrames, overlay, tweens,
                   solarHidden, initCalls, initialised, entities, sListeners,
                   sFrames, sMouse, planets>>
    /\ UNCHANGED panelVars

(* A click on #icon-container: the landing listeners go, the overlay tween *)
(* starts.                                                                 *)
IconClick ==
    /\ initCalls + tweens < MaxClicks
    /\ lListeners' = RemoveLandingListeners(lListeners)
    /\ tweens' = tweens + 1
    /\ overlay' = IF overlay = "opaque" THEN "fading" ELSE overlay
    /\ UNCHANGED <<canvas, viewport, lMouse, lCam, lSize, lStars, lFrames, solarHidden,
                   initCalls>>
    /\ UNCHANGED solarVars
    /\ UNCHANGED panelVars

(* The body of initSolarSystem() past its guard, animate() call included   *)
InitSolarSystemBody(seed) ==
    /\ initialised' = TRUE
    /\ sSize' = viewport
    /\ entities' = entities \o SceneEntities
    /\ sListeners' = [e \in DOMAIN sListeners |-> sListeners[e] + 1]
    /\ sMouse' = NoMouse
    /\ sFrames' = RequestAnimationFrame(sFrames)
    /\ planets' = [i \in PlanetIdx |->
                      AdvancePlanet(NewPlanet(planetsData[i], seed[i]))]
    /\ sCam' = SolarFrameCam(
                   [x |-> 0, y |-> SolarStartY * FX, z |-> 2 * SolarStartZ,
                    aspect |-> viewport],
                   NoMouse)

(* onComplete of an overlay tween: reveal #solar-container and call        *)
(* window.initSolarSystem()                                                *)
TweenComplete(seed) ==
    /\ tweens > 0
    /\ tweens' = tweens - 1
    /\ overlay' = "transparent"
    /\ solarHidden' = FALSE
    /\ initCalls' = initCalls + 1
    /\ IF GuardReturns(canvas, initialised)
       THEN UNCHANGED solarVars
       ELSE InitSolarSystemBody(seed)
    /\ UNCHANGED <<canvas, viewport>>
    /\ UNCHANGED landingVars
    /\ UNCHANGED panelVars

(* A click on the solar canvas along ray *)
CanvasClick(ray) ==
    /\ sListeners.click > 0
    /\ panel' = OnCanvasClick(panel, planets, ray)
    /\ UNCHANGED <<canvas, viewport, overlay, tweens, solarHidden, initCalls, hideTimers>>
    /\ UNCHANGED landingVars
    /\ UNCHANGED solarVars

(* A click on #close-info *)
CloseClick ==
    /\ sListeners.close > 0
    /\ hideTimers < MaxTimers
    /\ panel' = [panel EXCEPT !.classes = @ \ {"show"}]
    /\ hideTimers' = hideTimers + 1
    /\ UNCHANGED <<canvas, viewport, overlay, tweens, solarHidden, initCalls>>
    /\ UNCHANGED landingVars
    /\ UNCHANGED solarVars

(* The setTimeout callback of a close click, 500 ms after it *)
HideTimer ==
    /\ hideTimers > 0
    /\ hideTimers' = hideTimers - 1
    /\ panel' = [panel EXCEPT !.classes = @ \cup {"hidden"}]
    /\ UNCHANGED <<canvas, viewport, overlay, tweens, solarHidden, initCalls>>
    /\ UNCHANGED landingVars
    /\ UNCHANGED solarVars

Next ==
    \/ LandingFrame
    \/ SolarFrame
    \/ \E f \in PointerFractions : MouseMoveEvent(f)
    \/ \E d \in WheelDeltas : WheelEvent(d)
    \/ \E vp \in Viewports : ResizeEvent(vp)
    \/ IconClick
    \/ \E seed \in AngleSeeds : TweenComplete(seed)
    \/ \E ray \in Rays : CanvasClick(ray)
    \/ CloseClick
    \/ HideTimer

Spec == Init /\ [][Next]_vars

----------------------------------------------------------------------------
(* Properties *)

EntityCount == 4 + 2 * Len(planetsData)
OneEach == [click |-> 1, close |-> 1, wheel |-> 1, resize |-> 1, mousemove |-> 1]

(* C1: activation is idempotent.  After any number N >= 1 of calls of      *)
(* initSolarSystem() on the 'solar-scene' canvas, interleaved with any     *)
(* events and frames, the scene holds the entities of one activation       *)
(* (2 lights, the star field, the sun, 5 planets, 5 rings), each listener  *)
(* is registered once and one frame loop runs; before the first call, and  *)
(* after any number of calls on a document without the canvas, there is    *)
(* none of them and the flag is not set.                                   *)
C1_Idempotent ==
    /\ (initCalls = 0 \/ ~canvas) =>
          /\ ~initialised /\ Len(entities) = 0
          /\ sListeners = NoListeners /\ sFrames = 0
    /\ (initCalls >= 1 /\ canvas) =>
          /\ initialised /\ Len(entities) = EntityCount
          /\ sListeners = OneEach /\ sFrames = 1

(* C1 witness: a second call has returned, after frames and wheel events   *)
C1_Witness ==
    /\ canvas /\ initialised
    /\ initCalls >= 2
    /\ planets[1].rotY >= 2 * PlanetSpin
    /\ sCam.z # 2 * SolarStartZ
    /\ Len(entities) = EntityCount

(* C2: the zoom distance is always clamped.  In every reachable state the  *)
(* landing camera's z is in [500, 2000] and, once the solar camera exists, *)
(* its z is in [300, 1500] (z is held in units of 1/2).                    *)
C2_ZoomClamped ==
    /\ 2 * LandingMinZoom <= lCam.z /\ lCam.z <= 2 * LandingMaxZoom
    /\ initialised =>
          (2 * SolarMinZoom <= sCam.z /\ sCam.z <= 2 * SolarMaxZoom)

(* C2 witness: wheel events have driven the landing camera to its lower    *)
(* limit and the solar camera to its upper limit                           *)
C2_Witness ==
    /\ lCam.z = 2 * LandingMinZoom
    /\ initialised
    /\ sCam.z = 2 * SolarMaxZoom

(* C3: every planet's stored position is (cos(angle) * orbitalRadius, 0,   *)
(* sin(angle) * orbitalRadius) of its current angle in every state, and    *)
(* only a frame of the solar loop changes a planet's angle or position:    *)
(* every step that changes a planet advances each angle by its speed.      *)
C3_PositionFromAngle ==
    /\ [](\A i \in 1..Len(planets) :
            /\ planets[i].pos[1] = Cos(planets[i].angle) * planets[i].orbitalRadius
            /\ planets[i].pos[2] = 0
            /\ planets[i].pos[3] = Sin(planets[i].angle) * planets[i].orbitalRadius)
    /\ [][(planets # <<>> /\ planets' # planets) =>
            /\ sFrames > 0
            /\ \A i \in 1..Len(planets) :
                  /\ planets'[i].angle = planets[i].angle + planets[i].speed
                  /\ planets'[i].rotY = planets[i].rotY + PlanetSpin]_vars

(* C3 witness: frames have moved a planet created at a non-zero angle,     *)
(* with wheel, pointer and click events in between                         *)
C3_Witness ==
    /\ planets # <<>>
    /\ planets[2].angle = 1047 + 2 * planetsData[2].speed
    /\ planets[2].pos[1] # 0 /\ planets[2].pos[3] # 0
    /\ sCam.z # 2 * SolarStartZ
    /\ sMouse # NoMouse
    /\ panel.title # ""

(* The planets of a ray, nearest first *)
PlanetsOf(ray) == LET IsPlanet(o) == o.kind = "planet" IN SelectSeq(ray, IsPlanet)

(* C4: a click on the solar canvas whose ray passes through a planet sets  *)
(* the panel's title and content to those configured for the nearest such  *)
(* planet and shows the panel; a click whose ray passes through no planet  *)
(* (nothing, the sun, a ring) leaves the panel unchanged.                  *)
C4_ClickSelects ==
    [][\A ray \in Rays : CanvasClick(ray) =>
          IF PlanetsOf(ray) # <<>>
          THEN LET data == planetsData[PlanetsOf(ray)[1].index]
               IN /\ panel'.title = data.name
                  /\ panel'.content = data.content
                  /\ "show" \in panel'.classes
                  /\ "hidden" \notin panel'.classes
          ELSE panel' = panel]_vars

(* C4 witness: Mars was picked along a ray that passes a ring, Mars and    *)
(* then Earth, after a different planet had been shown                     *)
C4_Witness ==
    /\ panel.title = "Mars"
    /\ panel.content = planetsData[2].content
    /\ panel.classes = {"show"}
    /\ hideTimers = 0
    /\ planets[1].rotY >= 2 * PlanetSpin

(* C5: a wheel event with delta d sets the solar camera's zoom distance to *)
(* max(300, min(1500, old + 0.5 * d)); from 800 a delta of +1000 gives     *)
(* 1300 and a further +1000 gives 1500.                                    *)
C5_WheelZoom ==
    [][\A d \in WheelDeltas : (WheelEvent(d) /\ initialised) =>
          /\ sCam'.z = Max(2 * 300, Min(2 * 1500, sCam.z + d))
          /\ (sCam.z = 2 * 800 /\ d = 1000) => sCam'.z = 2 * 1300
          /\ (sCam.z = 2 * 1300 /\ d = 1000) => sCam'.z = 2 * 1500]_vars

(* C5 witness: the solar camera stands at 1500 after the wheel events      *)
C5_Witness ==
    /\ initialised
    /\ sCam.z = 2 * 1500
    /\ lCam.z = 2 * LandingStartZ

(* A step in which a frame of the landing loop, or of the solar loop, ran  *)
LandingFrameStep == lStars' # lStars
SolarFrameStep == planets # <<>> /\ planets'[1].rotY # planets[1].rotY

(* C6 as stated: every change of a camera coordinate, x, y or the zoom     *)
(* distance z, on either screen happens inside a frame of that screen's    *)
(* loop; no input event handler changes a camera coordinate.               *)
C6_Original ==
    [][/\ (lCam'.x # lCam.x \/ lCam'.y # lCam.y \/ lCam'.z # lCam.z)
             => LandingFrameStep
       /\ (initialised /\ (sCam'.x # sCam.x \/ sCam'.y # sCam.y \/ sCam'.z # sCam.z))
             => SolarFrameStep]_vars

(* C6 amended: camera x and y never jump: on either screen they change     *)
(* only inside a frame of that screen's loop, by one smoothing step        *)
(* c + (target - c) * k toward the pointer target (k = 0.05 landing,       *)
(* 0.02 solar).  The zoom distance z is not smoothed: only a wheel event   *)
(* changes it, directly, and no frame changes it.                          *)
C6_XYSmoothedZDirect ==
    [][/\ (lCam'.x # lCam.x \/ lCam'.y # lCam.y) => LandingFrameStep
       /\ LandingFrameStep =>
             /\ lCam'.x = lCam.x
                   + ((lMouse.x * LandingParallax - lCam.x) \div LandingEaseDen)
             /\ lCam'.y = lCam.y
                   + ((-(lMouse.y * LandingParallax) - lCam.y) \div LandingEaseDen)
             /\ lCam'.z = lCam.z
       /\ (initialised /\ (sCam'.x # sCam.x \/ sCam'.y # sCam.y)) => SolarFrameStep
       /\ SolarFrameStep =>
             /\ sCam'.x = sCam.x
                   + ((sMouse.x * SolarParallaxX - sCam.x) \div SolarEaseDen)
             /\ sCam'.y = sCam.y
                   + ((-(sMouse.y * SolarParallaxY) - sCam.y) \div SolarEaseDen)
             /\ sCam'.z = sCam.z
       /\ (lCam'.z # lCam.z \/ (initialised /\ sCam'.z # sCam.z)) =>
             \E d \in WheelDeltas : WheelEvent(d)]_vars

(* C6 witness: both cameras have eased one smoothing step toward the      *)
(* target of a pointer at the top right corner (landing x: 0.05 * 25,      *)
(* solar x: 0.02 * 100) and both have been zoomed by the wheel             *)
C6_Witness ==
    /\ initialised
    /\ lCam.x = 1250 * 1000
    /\ sCam.x = 2000 * 1000
    /\ sCam.y < SolarStartY * FX
    /\ lCam.z # 2 * LandingStartZ
    /\ sCam.z # 2 * SolarStartZ

(* C7 as stated: initSolarSystem is invoked only once the overlay's        *)
(* fade-out has completed, and exactly once however often the start icon   *)
(* is clicked.                                                             *)
C7_InvokedOnce ==
    /\ initCalls <= 1
    /\ initCalls >= 1 => overlay = "transparent"

(* C8: a started frame loop always has exactly one frame callback          *)
(* pending.  The landing loop has one in every state; the solar loop has   *)
(* none until an activation call finds the canvas and one ever after,      *)
(* whatever events, icon clicks and repeated activation calls are          *)
(* interleaved; and the solar loop runs only with its five input handlers  *)
(* registered.                                                             *)
C8_OnePendingFrame ==
    /\ lFrames = 1
    /\ sFrames = (IF initCalls >= 1 /\ canvas THEN 1 ELSE 0)
    /\ sFrames > 0 => \A e \in DOMAIN sListeners : sListeners[e] >= 1

(* C8 witness: both loops have run frames and a repeated activation call   *)
(* has been made                                                           *)
C8_Witness ==
    /\ canvas /\ initialised
    /\ initCalls >= 2
    /\ lStars.y >= 2 * StarsRotY
    /\ planets[1].rotY >= 2 * PlanetSpin
    /\ lFrames = 1 /\ sFrames = 1
    /\ hideTimers > 0

PanelVisible == "show" \in panel.classes /\ "hidden" \notin panel.classes

(* C9 as stated: once a planet selection has made the panel visible        *)
(* (class 'show', no class 'hidden') it stays visible in every later state *)
(* until the next click on the close button, also when the selection was   *)
(* made while the hide timer of an earlier close click was pending.        *)
C9_SelectionStaysVisible ==
    [][(PanelVisible /\ hideTimers' <= hideTimers) => PanelVisible']_vars

(* C10: once the start icon has been clicked, pointer-move and wheel       *)
(* events leave the landing screen's mouseX, mouseY and camera zoom        *)
(* distance unchanged, and no step changes the zoom distance of both       *)
(* cameras.                                                                *)
C10_LandingDetached ==
    [][/\ overlay # "opaque" => (lMouse' = lMouse /\ lCam'.z = lCam.z)
       /\ ~(lCam'.z # lCam.z /\ sCam'.z # sCam.z)]_vars

(* C10 witness: after two icon clicks the solar screen has taken a pointer *)
(* move and a wheel event the landing screen has not                       *)
C10_Witness ==
    /\ initCalls >= 2
    /\ lMouse = NoMouse /\ sMouse # NoMouse
    /\ lCam.z = 2 * LandingStartZ /\ sCam.z = 2 * SolarMaxZoom

====
